---------------------------- MODULE Spec2Model ----------------------------
(***************************************************************************)
(* rua: the Rust-subset to Lua translator of src/src/main.rs.              *)
(*                                                                         *)
(* The Generator is a recursive-descent emitter over the syntax tree.  The *)
(* model runs it as a machine with an explicit call stack: one frame per   *)
(* active call of a Generator method (the method, the node it was called   *)
(* with, and the position reached inside the method body), and one action  *)
(* per method.  A step of a method runs its code up to the next call it    *)
(* makes or up to its return.  A panic! stops the run where it is.         *)
(*                                                                         *)
(* Text is a sequence of lexemes: every space and every newline is a       *)
(* lexeme of its own, every word, number digit and operator symbol is one. *)
(***************************************************************************)
EXTENDS Integers, Sequences, FiniteSets, TLC

VARIABLES
    input,        \* the command line and what the parser made of the file
    buf,          \* Generator.buf
    curr_indent,  \* Generator.curr_indent
    stack,        \* the call stack, innermost call last
    status,       \* "running", "exited" (main returned) or "panicked"
    stdout,       \* what was written to standard output
    stderr,       \* what was written to standard error
    marks,        \* history: per frame of stack, buffer length and depth at the call
    log           \* history: the completed calls, in order of completion

vars == <<input, buf, curr_indent, stack, status, stdout, stderr, marks, log>>

---------------------------------------------------------------------------
(* Bounds of the input trees.                                              *)

MaxItems == 2    \* items of a module
MaxStmts == 2    \* statements of a block with sibling statements
MaxDepth == 3    \* nesting of blocks below a function body
MaxArgs  == 2    \* arguments of a call, parameters of a function

---------------------------------------------------------------------------
(* syntax::ast, as far as the generator looks at it.  An Option is a       *)
(* sequence of length 0 or 1.                                              *)

None == <<>>
Some(x) == <<x>>

MkPath(segs) == [segments |-> segs]
LitInt(n) == [kind |-> "Int", n |-> n]
LitStr(s) == [kind |-> "Str", s |-> s]
LitBool(b) == [kind |-> "Bool", b |-> b]

ELit(l) == [kind |-> "Lit", lit |-> l]
EPath(p) == [kind |-> "Path", path |-> p]
ECall(f, as) == [kind |-> "Call", f |-> f, args |-> as]
EBinary(o, l, r) == [kind |-> "Binary", op |-> o, lhs |-> l, rhs |-> r]
EAssign(a, b) == [kind |-> "Assign", a |-> a, b |-> b]
EAssignOp(o, a, b) == [kind |-> "AssignOp", op |-> o, a |-> a, b |-> b]
ERet(v) == [kind |-> "Ret", val |-> v]
ELoop(b) == [kind |-> "Loop", block |-> b]
EIf(c, b, e) == [kind |-> "If", cond |-> c, block |-> b, els |-> e]
EBreak(v) == [kind |-> "Break", val |-> v]
EParen(e) == [kind |-> "Paren", e |-> e]
EBlock(b) == [kind |-> "Block", block |-> b]

PIdent(n) == [kind |-> "Ident", name |-> n]
PPath(p) == [kind |-> "Path", path |-> p]
PWild == [kind |-> "Wild"]

SItem(i) == [kind |-> "Item", item |-> i]
SExpr(e) == [kind |-> "Expr", expr |-> e]
SSemi(e) == [kind |-> "Semi", expr |-> e]
SLocal(p, init) == [kind |-> "Local", pat |-> p, init |-> init]
SMac == [kind |-> "Mac"]

IFn(n, ps, b) == [kind |-> "Fn", name |-> n, inputs |-> ps, block |-> b]
IUse == [kind |-> "Use", name |-> "u"]

---------------------------------------------------------------------------
(* Text helpers.                                                           *)

RECURSIVE Repeat(_, _)
Repeat(t, n) == IF n <= 0 THEN <<>> ELSE <<t>> \o Repeat(t, n - 1)

DigitChars == <<"0", "1", "2", "3", "4", "5", "6", "7", "8", "9">>

RECURSIVE Decimal(_)
Decimal(n) ==
    IF n < 10 THEN <<DigitChars[n + 1]>>
    ELSE Decimal(n \div 10) \o <<DigitChars[(n % 10) + 1]>>

---------------------------------------------------------------------------
(* The machine state the Generator methods work on, as a record.           *)

Cur ==
    [buf |-> buf, curr_indent |-> curr_indent, stack |-> stack,
     status |-> status, stdout |-> stdout, stderr |-> stderr]

Top(s) == s.stack[Len(s.stack)]

Frame(fn, node) == [fn |-> fn, node |-> node, pc |-> 0]

\* Leave the running method at position pc and enter method fn on node.
Call(s, pc, fn, node) ==
    [s EXCEPT !.stack =
        Append([s.stack EXCEPT ![Len(s.stack)].pc = pc], Frame(fn, node))]

\* Return from the running method; main's return ends the process.
Return(s) ==
    LET rest == SubSeq(s.stack, 1, Len(s.stack) - 1)
    IN  [s EXCEPT !.stack = rest,
                  !.status = IF rest = <<>> THEN "exited" ELSE s.status]

\* A panic that still writes out what the buffer holds.
panic_flush(s) == [s EXCEPT !.status = "panicked", !.stdout = s.stdout \o s.buf]

\* panic!: the run stops at once, nothing more is executed.
panic(s) == [s EXCEPT !.status = "panicked"]

push_str(s, text) == [s EXCEPT !.buf = s.buf \o text]

indent(s) == push_str(s, Repeat(" ", 2 * s.curr_indent))

ident(s, name) == push_str(s, <<name>>)

\* An end keyword written without its indentation.
end_flat(s) == push_str(s, <<"end">>)

end(s) == push_str(indent(s), <<"end">>)

---------------------------------------------------------------------------
(* The Generator methods.  Each takes the machine state with its own frame *)
(* on top and gives the state after one step of its body.                  *)

\* A module loop that walks the items from the last to the first.
module_reversed(s) ==
    LET f == s.stack[Len(s.stack)]
    IN  IF f.pc < Len(f.node)
        THEN [s EXCEPT !.stack =
                Append([s.stack EXCEPT ![Len(s.stack)].pc = f.pc + 1],
                       [fn |-> "item", node |-> f.node[Len(f.node) - f.pc], pc |-> 0])]
        ELSE Return(s)

module(s) ==
    LET f == Top(s)
    IN  IF f.pc < Len(f.node)
        THEN Call(s, f.pc + 1, "item", f.node[f.pc + 1])
        ELSE Return(s)

literal(s) ==
    LET lit == Top(s).node
    IN  CASE lit.kind = "Str" -> Return(push_str(s, <<"'">> \o lit.s \o <<"'">>))
          [] lit.kind = "Int" -> Return(push_str(s, Decimal(lit.n)))
          [] OTHER -> panic(s)

tuple(s) ==
    LET f == Top(s)
        n == Len(f.node)
        s1 == IF f.pc = 0 THEN push_str(s, <<"(">>)
              ELSE IF f.pc # n THEN push_str(s, <<",", " ">>)
              ELSE s
    IN  IF f.pc < n
        THEN Call(s1, f.pc + 1, "expr", f.node[f.pc + 1])
        ELSE Return(push_str(s1, <<")">>))

args(s) ==
    LET f == Top(s)
        n == Len(f.node)
        s1 == IF f.pc = 0 THEN push_str(s, <<"(">>)
              ELSE IF f.pc # n THEN push_str(s, <<",", " ">>)
              ELSE s
    IN  IF f.pc < n
        THEN Call(s1, f.pc + 1, "pat", f.node[f.pc + 1])
        ELSE Return(push_str(s1, <<")">>))

\* A block that does not take the depth back on leaving.
block_leak(s) ==
    LET f == Top(s)
        s1 == IF f.pc = 0 THEN [s EXCEPT !.curr_indent = s.curr_indent + 1] ELSE s
    IN  IF f.pc < Len(f.node)
        THEN Call(s1, f.pc + 1, "stmt", f.node[f.pc + 1])
        ELSE Return(s1)

block(s) ==
    LET f == Top(s)
        s1 == IF f.pc = 0 THEN [s EXCEPT !.curr_indent = s.curr_indent + 1] ELSE s
    IN  IF f.pc < Len(f.node)
        THEN Call(s1, f.pc + 1, "stmt", f.node[f.pc + 1])
        ELSE Return([s1 EXCEPT !.curr_indent = s1.curr_indent - 1])

op(s) ==
    LET f == Top(s)
    IN  CASE f.pc = 0 -> Call(s, 1, "expr", f.node.lhs)
          [] f.pc = 1 ->
                Call(push_str(s, <<" ", f.node.op, " ">>), 2, "expr", f.node.rhs)
          [] OTHER -> Return(s)

expr_lit(s) ==
    IF Top(s).pc = 0 THEN Call(s, 1, "literal", Top(s).node.lit) ELSE Return(s)

expr_path(s) ==
    IF Top(s).pc = 0 THEN Call(s, 1, "path", Top(s).node.path) ELSE Return(s)

expr_call(s) ==
    LET f == Top(s)
    IN  CASE f.pc = 0 -> Call(s, 1, "expr", f.node.f)
          [] f.pc = 1 -> Call(s, 2, "tuple", f.node.args)
          [] OTHER -> Return(s)

expr_binary(s) ==
    LET f == Top(s)
    IN  IF f.pc = 0
        THEN Call(s, 1, "op", [op |-> f.node.op, lhs |-> f.node.lhs, rhs |-> f.node.rhs])
        ELSE Return(s)

expr_assign(s) ==
    LET f == Top(s)
    IN  CASE f.pc = 0 -> Call(s, 1, "expr", f.node.a)
          [] f.pc = 1 -> Call(push_str(s, <<" ", "=", " ">>), 2, "expr", f.node.b)
          [] OTHER -> Return(s)

\* A compound assignment that swaps the operands of the operation.
expr_assignop_swapped(s) ==
    LET f == Top(s)
    IN  CASE f.pc = 0 -> Call(s, 1, "expr", f.node.a)
          [] f.pc = 1 ->
                Call(push_str(s, <<" ", "=", " ">>), 2, "op",
                     [op |-> f.node.op, lhs |-> f.node.b, rhs |-> f.node.a])
          [] OTHER -> Return(s)

expr_assignop(s) ==
    LET f == Top(s)
    IN  CASE f.pc = 0 -> Call(s, 1, "expr", f.node.a)
          [] f.pc = 1 ->
                Call(push_str(s, <<" ", "=", " ">>), 2, "op",
                     [op |-> f.node.op, lhs |-> f.node.a, rhs |-> f.node.b])
          [] OTHER -> Return(s)

expr_ret(s) ==
    LET f == Top(s)
    IN  IF f.node.val # None
        THEN IF f.pc = 0
             THEN Call(push_str(s, <<"return", " ">>), 1, "expr", f.node.val[1])
             ELSE Return(s)
        ELSE Return(push_str(s, <<"return">>))

\* A loop that is never closed.
expr_loop_noend(s) ==
    LET f == Top(s)
    IN  IF f.pc = 0
        THEN Call(push_str(s, <<"while", " ", "true", " ", "do", "\n">>), 1,
                  "block", f.node.block)
        ELSE Return(s)

expr_loop(s) ==
    LET f == Top(s)
    IN  IF f.pc = 0
        THEN Call(push_str(s, <<"while", " ", "true", " ", "do", "\n">>), 1,
                  "block", f.node.block)
        ELSE Return(end(s))

\* A conditional that goes on to translate its else clause.
expr_if_else(s) ==
    LET f == Top(s)
    IN  CASE f.pc = 0 -> Call(push_str(s, <<"if", " ">>), 1, "expr", f.node.cond)
          [] f.pc = 1 ->
                Call(push_str(s, <<" ", "then", "\n">>), 2, "block", f.node.block)
          [] f.pc = 2 /\ f.node.els # None ->
                Call(push_str(indent(s), <<"else", "\n">>), 3, "expr", f.node.els[1])
          [] OTHER -> Return(end(s))

expr_if(s) ==
    LET f == Top(s)
    IN  CASE f.pc = 0 -> Call(push_str(s, <<"if", " ">>), 1, "expr", f.node.cond)
          [] f.pc = 1 ->
                Call(push_str(s, <<" ", "then", "\n">>), 2, "block", f.node.block)
          [] OTHER -> Return(end(s))

expr_break(s) ==
    LET f == Top(s)
    IN  IF f.node.val # None
        THEN IF f.pc = 0
             THEN Call(push_str(s, <<"break", " ">>), 1, "expr", f.node.val[1])
             ELSE Return(s)
        ELSE Return(push_str(s, <<"break">>))

expr(s) ==
    LET k == Top(s).node.kind
    IN  CASE k = "Lit" -> expr_lit(s)
          [] k = "Path" -> expr_path(s)
          [] k = "Call" -> expr_call(s)
          [] k = "Binary" -> expr_binary(s)
          [] k = "Assign" -> expr_assign(s)
          [] k = "AssignOp" -> expr_assignop(s)
          [] k = "Ret" -> expr_ret(s)
          [] k = "Loop" -> expr_loop(s)
          [] k = "If" -> expr_if(s)
          [] k = "Break" -> expr_break(s)
          [] OTHER -> panic(s)

path(s) ==
    LET p == Top(s).node
    IN  IF Len(p.segments) = 1
        THEN Return(ident(s, p.segments[Len(p.segments)]))
        ELSE panic(s)

pat(s) ==
    LET f == Top(s)
    IN  CASE f.node.kind = "Ident" -> Return(ident(s, f.node.name))
          [] f.node.kind = "Path" ->
                IF f.pc = 0 THEN Call(s, 1, "path", f.node.path) ELSE Return(s)
          [] OTHER -> panic(s)

stmt(s) ==
    LET f == Top(s)
        k == f.node.kind
    IN  IF f.pc = 0
        THEN LET s1 == indent(s)
             IN  CASE k = "Item" -> Call(s1, 1, "item", f.node.item)
                   [] k = "Expr" -> Call(s1, 1, "expr", f.node.expr)
                   [] k = "Semi" -> Call(s1, 1, "expr", f.node.expr)
                   [] k = "Local" ->
                         Call(push_str(s1, <<"local", " ">>), 1, "pat", f.node.pat)
                   [] OTHER -> panic(s1)
        ELSE IF k = "Local" /\ f.pc = 1 /\ f.node.init # None
             THEN Call(push_str(s, <<" ", "=", " ">>), 2, "expr", f.node.init[1])
             ELSE Return(push_str(s, <<"\n">>))

item(s) ==
    LET f == Top(s)
    IN  IF f.node.kind = "Fn"
        THEN CASE f.pc = 0 ->
                    Call(push_str(s, <<"function", " ", f.node.name>>), 1,
                         "args", f.node.inputs)
               [] f.pc = 1 -> Call(push_str(s, <<"\n">>), 2, "block", f.node.block)
               [] OTHER -> Return(push_str(end(s), <<"\n", "\n">>))
        ELSE panic(s)

main(s) ==
    LET f == Top(s)
    IN  IF f.pc = 0
        THEN IF f.node.argc < 2
             THEN Return([s EXCEPT !.stderr = s.stderr \o <<"Usage: rua <file.rua>", "\n">>])
             ELSE IF f.node.parse # "ok"
             THEN panic(s)
             ELSE Call([s EXCEPT !.buf = <<>>, !.curr_indent = 0], 1,
                       "module", f.node.items)
        ELSE Return([s EXCEPT
                !.stderr = s.stderr \o
                    <<"-------------------- GENERATED ------------------------", "\n">>,
                !.stdout = s.stdout \o s.buf \o <<"\n">>])

\* One step of the method whose frame is on top of the stack.
Step(s) ==
    LET fn == Top(s).fn
    IN  CASE fn = "main" -> main(s)
          [] fn = "module" -> module(s)
          [] fn = "item" -> item(s)
          [] fn = "args" -> args(s)
          [] fn = "block" -> block(s)
          [] fn = "stmt" -> stmt(s)
          [] fn = "expr" -> expr(s)
          [] fn = "op" -> op(s)
          [] fn = "tuple" -> tuple(s)
          [] fn = "literal" -> literal(s)
          [] fn = "path" -> path(s)
          [] fn = "pat" -> pat(s)

\* A run to its end: the return of the outermost call, or a panic.
RECURSIVE Run(_)
Run(s) == IF s.status # "running" THEN s ELSE Run(Step(s))

\* The run of one method on one node in a generator of its own, at depth ind.
Alone(fn, node, ind) ==
    Run([buf |-> <<>>, curr_indent |-> ind, stack |-> <<Frame(fn, node)>>,
         status |-> "running", stdout |-> <<>>, stderr |-> <<>>])

---------------------------------------------------------------------------
(* The input trees.                                                        *)

BoundedSeq(S, n) == UNION { [1..k -> S] : k \in 0..n }

Var(n) == EPath(MkPath(<<n>>))
X == Var("x")
Y == Var("y")
Z == Var("z")
F == Var("f")
One == ELit(LitInt(1))
Twelve == ELit(LitInt(12))
StrA == ELit(LitStr(<<"a">>))

\* Expressions the generator rejects: a literal kind, a path and an
\* expression kind outside the supported ones.
BadLit == ELit(LitBool(TRUE))
BadPath == EPath(MkPath(<<"a", "b">>))
BadExprs == {BadLit, BadPath, EParen(X)}

Atoms == {X, One, Twelve, StrA}

\* Binary operators (BinOpKind::to_string) and how tightly each binds in the
\* source language.  The parser builds a Binary node under another one only
\* where the precedences allow it without parentheses: parentheses are kept
\* in the tree as ExprKind::Paren.
BinOps == {"+", "-", "*", "==", "&&"}

RustPrec(o) ==
    CASE o = "*" -> 12
      [] o \in {"+", "-"} -> 11
      [] o = "==" -> 6
      [] o = "&&" -> 5

Bin1 == { EBinary(o, a, Y) : o \in BinOps, a \in {X, One} }

LeftOps(o) ==
    { q \in BinOps : IF o = "==" THEN RustPrec(q) > RustPrec(o)
                                  ELSE RustPrec(q) >= RustPrec(o) }

RightOps(o) == { q \in BinOps : RustPrec(q) > RustPrec(o) }

BinLeft ==
    UNION { { EBinary(o, EBinary(q, X, Y), Z) : q \in LeftOps(o) } : o \in BinOps }

BinRight ==
    UNION { { EBinary(o, X, EBinary(q, Y, Z)) : q \in RightOps(o) } : o \in BinOps }

Binaries == Bin1 \cup BinLeft \cup BinRight \cup {EBinary("+", X, BadLit)}

AssignOps ==
    { EAssignOp(o, X, v) : o \in {"-", "*"},
        v \in {Y, One} \cup { EBinary(q, Y, Z) : q \in {"+", "-"} } }
    \cup {EAssignOp("+", X, Y), EAssignOp("+", BadPath, Y), EAssignOp("+", X, BadLit)}

Calls ==
    { ECall(F, as) : as \in BoundedSeq({X, One, StrA, BadLit}, MaxArgs) }
    \cup {ECall(EParen(F), <<>>), ECall(F, <<ECall(F, <<X>>)>>)}

Assigns == { EAssign(X, v) : v \in Atoms \cup BadExprs } \cup {EAssign(BadPath, One)}

SCall == SSemi(ECall(F, <<>>))
SBreak1 == SSemi(EBreak(Some(One)))

\* A loop or a conditional below another expression.
InnerLoop == ELoop(<<SBreak1>>)
Nested ==
    { ERet(Some(InnerLoop)), ECall(F, <<InnerLoop, X>>), EAssign(X, InnerLoop),
      EBinary("+", X, InnerLoop), EIf(InnerLoop, <<SCall>>, None),
      EIf(EBinary("==", X, One), <<SBreak1>>, None) }

Rets == {ERet(None), EBreak(None)}
        \cup { ERet(Some(e)) : e \in {X, EBinary("+", X, Y), BadLit} }
        \cup { EBreak(Some(e)) : e \in {One, BadPath} }

\* Conditionals with an else clause: the parser gives an else clause as an
\* ExprKind::Block or, for else-if, as an ExprKind::If.
Elses ==
    { EIf(X, b, e) : b \in {<<>>, <<SCall>>, <<SMac>>},
        e \in { None, Some(EBlock(<<>>)), Some(EBlock(<<SCall>>)),
                Some(EBlock(<<SMac>>)), Some(EIf(Y, <<SCall>>, None)),
                Some(EIf(Y, <<SCall>>, Some(EBlock(<<SBreak1>>)))) } }

Exprs == Atoms \cup BadExprs \cup Binaries \cup AssignOps \cup Calls \cup Assigns
         \cup Nested \cup Rets \cup Elses

Pats == {PIdent("a"), PPath(MkPath(<<"b">>)), PWild, PPath(MkPath(<<"a", "b">>))}

Locals ==
    { SLocal(p, None) : p \in Pats }
    \cup { SLocal(PIdent("x"), Some(e)) : e \in {One, ECall(F, <<One, StrA>>), BadLit} }

\* Function bodies of one statement, over every expression and local above.
FlatBodies ==
    { <<SSemi(e)>> : e \in Exprs } \cup { <<SExpr(e)>> : e \in Nested \cup Elses }
    \cup { <<st>> : st \in Locals }

\* Blocks nested in blocks, one statement each, to a given depth.
NestOver(B) ==
    { SExpr(ELoop(b)) : b \in B } \cup { SExpr(EIf(X, b, None)) : b \in B }
    \cup { SItem(IFn("g", <<>>, b)) : b \in B }

RECURSIVE Chain(_)
Chain(d) ==
    IF d = 0 THEN {<<>>, <<SCall>>, <<SMac>>}
    ELSE Chain(0) \cup { <<st>> : st \in NestOver(Chain(d - 1)) }

\* Blocks of sibling statements, nested blocks and a nested unsupported
\* item among them.
Siblings ==
    BoundedSeq({SCall, SMac, SItem(IUse)} \cup NestOver({<<>>, <<SCall>>}), MaxStmts)

Bodies == FlatBodies \cup Chain(MaxDepth - 1) \cup Siblings

Params == BoundedSeq({PIdent("a"), PIdent("b"), PWild}, MaxArgs)

TopItems ==
    { IFn("f", <<PIdent("a"), PIdent("b")>>, <<SExpr(ERet(Some(EBinary("+", Var("a"), Var("b")))))>>),
      IFn("g", <<>>, <<>>),
      IFn("h", <<>>, <<SMac>>),
      IUse }

Programs ==
    { <<IFn("f", <<>>, b)>> : b \in Bodies }
    \cup { <<IFn("f", ps, <<SCall>>)>> : ps \in Params }
    \cup BoundedSeq(TopItems, MaxItems)

Inputs ==
    { [argc |-> 1, parse |-> "ok", items |-> <<>>],
      [argc |-> 2, parse |-> "recovered", items |-> <<>>],
      [argc |-> 2, parse |-> "err", items |-> <<>>] }
    \cup { [argc |-> 2, parse |-> "ok", items |-> p] : p \in Programs }

---------------------------------------------------------------------------
(* The specification.                                                      *)

Start(in) ==
    [buf |-> <<>>, curr_indent |-> 0, stack |-> <<Frame("main", in)>>,
     status |-> "running", stdout |-> <<>>, stderr |-> <<>>]

Init ==
    /\ input \in Inputs
    /\ buf = <<>>
    /\ curr_indent = 0
    /\ stack = <<Frame("main", input)>>
    /\ status = "running"
    /\ stdout = <<>>
    /\ stderr = <<>>
    /\ marks = <<[start |-> 0, ind0 |-> 0]>>
    /\ log = <<>>

\* The step n of the running method becomes the next state; the history
\* variables note the call entered or the call completed by the step.
Apply(n) ==
    /\ buf' = n.buf
    /\ curr_indent' = n.curr_indent
    /\ stack' = n.stack
    /\ status' = n.status
    /\ stdout' = n.stdout
    /\ stderr' = n.stderr
    /\ input' = input
    /\ marks' =
         IF Len(n.stack) > Len(stack)
         THEN Append(marks, [start |-> Len(n.buf), ind0 |-> n.curr_indent])
         ELSE SubSeq(marks, 1, Len(n.stack))
    /\ log' =
         IF Len(n.stack) < Len(stack)
         THEN Append(log, [fn |-> stack[Len(stack)].fn,
                           lvl |-> Len(stack),
                           start |-> marks[Len(stack)].start,
                           stop |-> Len(n.buf),
                           ind0 |-> marks[Len(stack)].ind0,
                           ind1 |-> n.curr_indent])
         ELSE log

Running(fn) == status = "running" /\ stack # <<>> /\ stack[Len(stack)].fn = fn

Main == Running("main") /\ Apply(main(Cur))
Module == Running("module") /\ Apply(module(Cur))
Item == Running("item") /\ Apply(item(Cur))
Args == Running("args") /\ Apply(args(Cur))
Block == Running("block") /\ Apply(block(Cur))
Stmt == Running("stmt") /\ Apply(stmt(Cur))
Expr == Running("expr") /\ Apply(expr(Cur))
Op == Running("op") /\ Apply(op(Cur))
Tuple == Running("tuple") /\ Apply(tuple(Cur))
Literal == Running("literal") /\ Apply(literal(Cur))
PathStep == Running("path") /\ Apply(path(Cur))
Pat == Running("pat") /\ Apply(pat(Cur))

Next ==
    \/ Main
    \/ Module
    \/ Item
    \/ Args
    \/ Block
    \/ Stmt
    \/ Expr
    \/ Op
    \/ Tuple
    \/ Literal
    \/ PathStep
    \/ Pat

Spec == Init /\ [][Next]_vars

---------------------------------------------------------------------------
(* Helpers of the properties.                                              *)

Seg(from, to) == SubSeq(buf, from + 1, to)

\* The frame on top of the stack, while the run goes on.
AtTop(i) == status = "running" /\ i = Len(stack)

\* The blocks entered and not yet left below frame i: the nesting depth of
\* the code frame i translates.
BlockDepth(i) == Cardinality({ j \in 1..(i - 1) : stack[j].fn = "block" })

Count(seq, S) == Cardinality({ i \in DOMAIN seq : seq[i] \in S })

Completed(fn) == { i \in DOMAIN log : log[i].fn = fn }

\* The calls of item made by module: main is frame 1, module 2, item 3.
TopItemCalls == { i \in DOMAIN log : log[i].fn = "item" /\ log[i].lvl = 3 }

ModuleDone == Completed("module") # {}

\* The text of each item translated in a generator of its own, one after
\* the other.
RECURSIVE ItemTexts(_)
ItemTexts(items) ==
    IF items = <<>> THEN <<>>
    ELSE Alone("item", Head(items), 0).buf \o ItemTexts(Tail(items))

---------------------------------------------------------------------------
(* C1: every call of block that runs to completion leaves curr_indent as   *)
(* it found it, curr_indent is never negative, and it is 0 once module has *)
(* completed.                                                              *)
C1_IndentBalanced ==
    /\ curr_indent >= 0
    /\ \A i \in Completed("block") : log[i].ind1 = log[i].ind0
    /\ ModuleDone => curr_indent = 0

\* A run that completed blocks at depth 0, 1 and 2 and then module.
C1_Witness ==
    /\ ModuleDone
    /\ \A d \in 0..2 : \E i \in Completed("block") : log[i].ind0 = d

(* C2: when a translation function rejects its node, the buffer is what it *)
(* was when that function was entered.                                     *)
C2_RejectEmitsNothing ==
    status = "panicked" => Len(buf) = marks[Len(stack)].start

(* C3: standard output is either never written, or it holds the complete   *)
(* translation of every item of the module; a run that panics writes       *)
(* nothing of the buffer.                                                  *)
C3_AllOrNothing ==
    /\ status = "panicked" => stdout = <<>>
    /\ stdout # <<>> =>
          /\ status = "exited"
          /\ Cardinality(TopItemCalls) = Len(input.items)
          /\ stdout = ItemTexts(input.items) \o <<"\n">>

\* A run that panics in its second item, with the first one in the buffer.
C3_Witness ==
    /\ status = "panicked"
    /\ TopItemCalls # {}
    /\ buf # <<>>
    /\ stdout = <<>>

(* C8: when the contents of a block fail, the depth after the failure is   *)
(* the depth before the block was entered.                                 *)
C8_DepthRestoredOnFailure ==
    status = "panicked" =>
        \A i \in DOMAIN stack : stack[i].fn = "block" => curr_indent = marks[i].ind0

---------------------------------------------------------------------------
(* The target language read back: Lua's expression grammar over the        *)
(* lexemes of a text, by precedence climbing, with Lua's precedences.  All *)
(* the operators below are left associative in Lua.                        *)

Digits == {"0", "1", "2", "3", "4", "5", "6", "7", "8", "9"}

LuaSymbols == {"+", "-", "*", "==", "&&", "=", "(", ")", ",", "'", " ", "\n"}

LuaKeywords ==
    {"function", "end", "while", "true", "do", "if", "then", "local", "return", "break"}

IsName(tok) == tok \notin Digits \cup LuaSymbols \cup LuaKeywords

LuaBinOps == {"+", "-", "*", "=="}

LuaPrec(o) ==
    CASE o = "*" -> 10
      [] o \in {"+", "-"} -> 9
      [] o = "==" -> 3

DigitVal(tok) == CHOOSE d \in 0..9 : DigitChars[d + 1] = tok

LuaFail == [ok |-> FALSE, tree |-> [t |-> "error"], rest |-> <<>>]

RECURSIVE LuaNum(_, _)
LuaNum(toks, acc) ==
    IF toks # <<>> /\ Head(toks) \in Digits
    THEN LuaNum(Tail(toks), 10 * acc + DigitVal(Head(toks)))
    ELSE [ok |-> TRUE, tree |-> [t |-> "num", v |-> acc], rest |-> toks]

LuaAtom(toks) ==
    IF toks = <<>> THEN LuaFail
    ELSE IF Head(toks) \in Digits THEN LuaNum(toks, 0)
    ELSE IF IsName(Head(toks))
    THEN [ok |-> TRUE, tree |-> [t |-> "name", n |-> Head(toks)], rest |-> Tail(toks)]
    ELSE LuaFail

RECURSIVE LuaClimb(_, _, _), LuaExp(_, _)
LuaExp(toks, minp) ==
    LET a == LuaAtom(toks)
    IN  IF a.ok THEN LuaClimb(a.tree, a.rest, minp) ELSE a
LuaClimb(lhs, toks, minp) ==
    IF toks = <<>> \/ Head(toks) \notin LuaBinOps THEN [ok |-> TRUE, tree |-> lhs, rest |-> toks]
    ELSE IF LuaPrec(Head(toks)) < minp THEN [ok |-> TRUE, tree |-> lhs, rest |-> toks]
    ELSE LET o == Head(toks)
             r == LuaExp(Tail(toks), LuaPrec(o) + 1)
         IN  IF r.ok
             THEN LuaClimb([t |-> "bin", op |-> o, l |-> lhs, r |-> r.tree], r.rest, minp)
             ELSE r

\* A text read as an assignment statement or as an expression.
LuaRead(text) ==
    LET toks == SelectSeq(text, LAMBDA tok : tok # " ")
    IN  IF Len(toks) >= 2 /\ IsName(toks[1]) /\ toks[2] = "="
        THEN LET r == LuaExp(SubSeq(toks, 3, Len(toks)), 0)
             IN  IF r.ok /\ r.rest = <<>>
                 THEN [t |-> "assign", target |-> [t |-> "name", n |-> toks[1]],
                       value |-> r.tree]
                 ELSE [t |-> "error"]
        ELSE LET r == LuaExp(toks, 0)
             IN  IF r.ok /\ r.rest = <<>> THEN r.tree ELSE [t |-> "error"]

\* Expressions of names, integers and the binary operators both languages
\* spell alike.
RECURSIVE Plain(_)
Plain(e) ==
    CASE e.kind = "Path" -> Len(e.path.segments) = 1
      [] e.kind = "Lit" -> e.lit.kind = "Int"
      [] e.kind = "Binary" -> e.op \in LuaBinOps /\ Plain(e.lhs) /\ Plain(e.rhs)
      [] OTHER -> FALSE

\* What the source tree says: its calls, literal values and grouping.
RECURSIVE Shape(_)
Shape(e) ==
    CASE e.kind = "Path" -> [t |-> "name", n |-> e.path.segments[1]]
      [] e.kind = "Lit" -> [t |-> "num", v |-> e.lit.n]
      [] e.kind = "Binary" ->
            [t |-> "bin", op |-> e.op, l |-> Shape(e.lhs), r |-> Shape(e.rhs)]
      [] e.kind = "AssignOp" ->
            [t |-> "assign", target |-> Shape(e.a),
             value |-> [t |-> "bin", op |-> e.op, l |-> Shape(e.a), r |-> Shape(e.b)]]

\* Frame i is a binary operation or a compound assignment over plain
\* operands whose text has just been emitted.
PlainEmitted(i) ==
    /\ AtTop(i) /\ stack[i].fn = "expr"
    /\ \/ stack[i].node.kind = "Binary" /\ stack[i].pc = 1 /\ Plain(stack[i].node)
       \/ /\ stack[i].node.kind = "AssignOp" /\ stack[i].pc = 2
          /\ stack[i].node.op \in LuaBinOps
          /\ Plain(stack[i].node.a) /\ Plain(stack[i].node.b)

(* C4: the emitted text of an expression, read back under the target       *)
(* language's grammar and precedences, is the input tree: the same names   *)
(* and literal values under the same grouping of binary operations.        *)
C4_RoundTrip ==
    \A i \in DOMAIN stack :
        PlainEmitted(i) => LuaRead(Seg(marks[i].start, Len(buf))) = Shape(stack[i].node)

\* The same for binary operations alone, which the parser nests only as the
\* source's precedences allow.
C4_BinaryRoundTrip ==
    \A i \in DOMAIN stack :
        (PlainEmitted(i) /\ stack[i].node.kind = "Binary") =>
            LuaRead(Seg(marks[i].start, Len(buf))) = Shape(stack[i].node)

(* C5: a compound assignment of target t, operator o and value v is        *)
(* emitted as text(t), " = ", text(t), " ", o, " ", text(v): the target    *)
(* twice, both copies alike.                                               *)
C5_CompoundAssign ==
    \A i \in DOMAIN stack :
        (AtTop(i) /\ stack[i].fn = "expr" /\ stack[i].node.kind = "AssignOp"
            /\ stack[i].pc = 2) =>
            LET n == stack[i].node
                T == Alone("expr", n.a, curr_indent).buf
                V == Alone("expr", n.b, curr_indent).buf
            IN  Seg(marks[i].start, Len(buf)) =
                    T \o <<" ", "=", " ">> \o T \o <<" ", n.op, " ">> \o V

\* A compound assignment whose value is itself a binary operation has been
\* emitted.
C5_Witness ==
    \E i \in DOMAIN stack :
        /\ AtTop(i) /\ stack[i].fn = "expr" /\ stack[i].node.kind = "AssignOp"
        /\ stack[i].pc = 2
        /\ stack[i].node.b.kind = "Binary"

\* Whether statement st is a loop, a conditional or a nested function.
IsCompound(st) ==
    \/ st.kind \in {"Expr", "Semi"} /\ st.expr.kind \in {"Loop", "If"}
    \/ st.kind = "Item" /\ st.item.kind = "Fn"

\* Frame i is a statement whose loop, conditional or nested function has
\* just been emitted.
CompoundEmitted(i) ==
    AtTop(i) /\ stack[i].fn = "stmt" /\ stack[i].pc = 1 /\ IsCompound(stack[i].node)

(* C6: a statement of a block at nesting depth d starts a line with        *)
(* exactly 2*d spaces; the end of a loop, conditional or nested function   *)
(* written as a statement is on a line indented like the line of its       *)
(* header; the header and the end of a top-level function are not indented.*)
C6_Indentation ==
    /\ \A i \in DOMAIN stack :
          (stack[i].fn = "stmt" /\ stack[i].pc >= 1) =>
             LET d == BlockDepth(i)
                 p == marks[i].start
             IN  /\ p > 0 /\ buf[p] = "\n"
                 /\ Len(buf) >= p + 2 * d
                 /\ \A k \in 1..(2 * d) : buf[p + k] = " "
                 /\ Len(buf) > p + 2 * d => buf[p + 2 * d + 1] # " "
    /\ \A i \in DOMAIN stack :
          CompoundEmitted(i) =>
             LET d == BlockDepth(i)
                 p == marks[i].start
                 closing == <<"\n">> \o Repeat(" ", 2 * d) \o <<"end">>
             IN  /\ buf[p + 2 * d + 1] \in {"while", "if", "function"}
                 /\ IF stack[i].node.kind = "Item"
                    THEN Seg(Len(buf) - 2 * d - 4, Len(buf)) = closing \o <<"\n", "\n">>
                    ELSE Seg(Len(buf) - 2 * d - 2, Len(buf)) = closing
    /\ \A i \in TopItemCalls :
          /\ buf[log[i].start + 1] = "function"
          /\ log[i].start > 0 => buf[log[i].start] = "\n"
          /\ Seg(log[i].stop - 4, log[i].stop) = <<"\n", "end", "\n", "\n">>

\* A loop with a body, written as a statement two blocks deep, has been
\* emitted.
C6_Witness ==
    \E i \in DOMAIN stack :
        /\ CompoundEmitted(i)
        /\ stack[i].node.kind = "Expr" /\ stack[i].node.expr.kind = "Loop"
        /\ stack[i].node.expr.block # <<>>
        /\ BlockDepth(i) = 2

(* C7: when module has completed, every item has been translated exactly   *)
(* once and the buffer is the texts of the items in declaration order.     *)
C7_ItemsInOrder ==
    ModuleDone =>
        /\ Cardinality(TopItemCalls) = Len(input.items)
        /\ buf = ItemTexts(input.items)

\* A module of two different functions has been translated.
C7_Witness ==
    /\ ModuleDone
    /\ Len(input.items) = 2
    /\ input.items[1] # input.items[2]

\* The tree without its else clauses.
RECURSIVE StripE(_), StripS(_), StripI(_)
StripB(b) == [i \in DOMAIN b |-> StripS(b[i])]
StripO(v) == [i \in DOMAIN v |-> StripE(v[i])]
StripE(e) ==
    CASE e.kind = "Call" -> ECall(StripE(e.f), StripO(e.args))
      [] e.kind = "Binary" -> EBinary(e.op, StripE(e.lhs), StripE(e.rhs))
      [] e.kind = "Assign" -> EAssign(StripE(e.a), StripE(e.b))
      [] e.kind = "AssignOp" -> EAssignOp(e.op, StripE(e.a), StripE(e.b))
      [] e.kind = "Ret" -> ERet(StripO(e.val))
      [] e.kind = "Break" -> EBreak(StripO(e.val))
      [] e.kind = "Loop" -> ELoop(StripB(e.block))
      [] e.kind = "If" -> EIf(StripE(e.cond), StripB(e.block), None)
      [] e.kind = "Paren" -> EParen(StripE(e.e))
      [] e.kind = "Block" -> EBlock(StripB(e.block))
      [] OTHER -> e
StripS(st) ==
    CASE st.kind = "Item" -> SItem(StripI(st.item))
      [] st.kind = "Expr" -> SExpr(StripE(st.expr))
      [] st.kind = "Semi" -> SSemi(StripE(st.expr))
      [] st.kind = "Local" -> SLocal(st.pat, StripO(st.init))
      [] OTHER -> st
StripI(it) ==
    IF it.kind = "Fn" THEN IFn(it.name, it.inputs, StripB(it.block)) ELSE it

StripInput(in) == [in EXCEPT !.items = [i \in DOMAIN in.items |-> StripI(in.items[i])]]

\* Frame i is a statement whose conditional has just been emitted.
IfEmitted(i) ==
    /\ AtTop(i) /\ stack[i].fn = "stmt" /\ stack[i].pc = 1
    /\ stack[i].node.kind \in {"Expr", "Semi"}
    /\ stack[i].node.expr.kind = "If"

(* C9: a run ends as the run on the same tree without its else clauses     *)
(* ends, with the same buffer; a conditional is emitted as "if ", its      *)
(* condition, " then", its then-block and end.                             *)
C9_ElseIgnored ==
    /\ status # "running" =>
          LET t == Run(Start(StripInput(input)))
          IN  t.status = status /\ t.buf = buf /\ t.stdout = stdout
    /\ \A i \in DOMAIN stack :
          IfEmitted(i) =>
             LET e == stack[i].node.expr
                 sp == Repeat(" ", 2 * curr_indent)
             IN  Seg(marks[i].start, Len(buf)) =
                    sp \o <<"if", " ">> \o Alone("expr", e.cond, curr_indent).buf
                       \o <<" ", "then", "\n">>
                       \o Alone("block", e.block, curr_indent).buf
                       \o sp \o <<"end">>

\* A conditional whose else clause holds an unsupported statement has been
\* emitted.
C9_Witness ==
    \E i \in DOMAIN stack :
        /\ IfEmitted(i)
        /\ stack[i].node.expr.els = Some(EBlock(<<SMac>>))
        /\ stack[i].node.expr.block # <<>>

Headers == {"function", "while", "then"}

Open(seq) == Count(seq, Headers) - Count(seq, {"end"})

(* C10: when a statement starts being emitted, the block headers emitted   *)
(* so far less the end keywords emitted so far are curr_indent; when       *)
(* module has completed every header is closed, and no end comes before    *)
(* its header.                                                             *)
C10_HeadersMatchDepth ==
    /\ \A i \in DOMAIN stack :
          (AtTop(i) /\ stack[i].fn = "stmt" /\ stack[i].pc = 0) =>
              Open(buf) = curr_indent
    /\ ModuleDone =>
          /\ Open(buf) = 0
          /\ \A k \in 0..Len(buf) : Open(SubSeq(buf, 1, k)) >= 0

\* A statement starts two blocks deep after an earlier block was closed.
C10_Witness ==
    \E i \in DOMAIN stack :
        /\ AtTop(i) /\ stack[i].fn = "stmt" /\ stack[i].pc = 0
        /\ curr_indent = 2
        /\ Count(buf, {"end"}) >= 1

=============================================================================
